---- MODULE Spec2Model ----
(***************************************************************************)
(* Resource control dispatch layer of the Portainer client:                *)
(* startStack / stopStack / updateStack / redeployStack of                 *)
(* StackControlsMixin, and cleanupExistingContainer / deleteStack of the   *)
(* PortainerApi class.  Every async method is cut at its await points:     *)
(* one operator per synchronous stretch of code between two awaits.        *)
(***************************************************************************)
EXTENDS Integers, Sequences, FiniteSets, TLC

VARIABLES inv

vars == <<inv>>

(***************************************************************************)
(* Bounds of the model.                                                    *)
(***************************************************************************)
MaxId == 2
MaxEnv == 2
MaxStacks == 2
MaxContainers == 2
MaxTasks == 2

(***************************************************************************)
(* JavaScript values.  k is the runtime kind, n the numeric payload of a   *)
(* finite number (or 1/0 for a boolean), s the characters of a string.     *)
(***************************************************************************)
JsVal(k, n, s) == [k |-> k, n |-> n, s |-> s]
Undefined == JsVal("undefined", 0, <<>>)
Null == JsVal("null", 0, <<>>)
NaN == JsVal("nan", 0, <<>>)
PosInf == JsVal("inf", 0, <<>>)
NegInf == JsVal("ninf", 0, <<>>)
Num(n) == JsVal("num", n, <<>>)
Str(s) == JsVal("string", 0, s)
Bool(b) == JsVal("bool", IF b THEN 1 ELSE 0, <<>>)

\* typeof x === 'number'
TypeofNumber(x) == x.k \in {"num", "nan", "inf", "ninf"}

\* typeof x === 'string'
TypeofString(x) == x.k = "string"

\* isNaN(x), for x of type number
IsNaN(x) == x.k = "nan"

\* x <= 0, for x of type number (NaN compares false, Infinity is > 0)
LeqZero(x) ==
    \/ x.k = "ninf"
    \/ x.k = "num" /\ x.n <= 0

\* x === null || x === undefined
Nullish(x) == x = Null \/ x = Undefined

(***************************************************************************)
(* The invocation in flight.  frames is the chain of active async method   *)
(* calls (redeployStack awaits stopStack / startStack), the last one being *)
(* the one that runs.  calls is the log of requests handed to the          *)
(* transport (auth.axiosInstance) and of reader lookups, in issue order;   *)
(* resolves counts ensureEnvId() invocations and answers lists what they   *)
(* resolved to; events are the stages a redeployStack invocation went      *)
(* through; result is what the outermost method's promise settled to.      *)
(***************************************************************************)
NoBody == [StackFileContent |-> Undefined, Prune |-> Undefined, PullImage |-> Undefined]

\* what a call settled to: kind is "pending" until it settles, then "ok", "list",
\* "undefined" or "throw"; list is the collection a reader gave
Resp(kind, list) == [kind |-> kind, list |-> list]

Pending == Resp("pending", <<>>)

\* query lists the <<key, value>> pairs of the URL's search part that the
\* container methods append
Call(verb, ep, by, id, env, body) ==
    [verb |-> verb, ep |-> ep, by |-> by, id |-> id, env |-> env, body |-> body,
     query |-> <<>>, resp |-> Pending]


\* the optional arguments of the container methods
Options(force, removeVolumes, signal, timeout) ==
    [force |-> force, removeVolumes |-> removeVolumes, signal |-> signal,
     timeout |-> timeout]

NoContainer == [Id |-> Undefined, Names |-> <<>>, State |-> "none"]

Args(stackId, env, content, pull, name) ==
    [stackId |-> stackId, env |-> env, content |-> content, pull |-> pull, name |-> name,
     containerId |-> Undefined, opts |-> Options(Undefined, Undefined, Undefined, Undefined),
     request |-> Undefined, action |-> Undefined]

\* arguments of a container method: (containerId, environmentId, ...options)
ContainerArgs(containerId, env, opts) ==
    [Args(Undefined, env, Undefined, Undefined, Undefined)
        EXCEPT !.containerId = containerId, !.opts = opts]

Frame(fn, a) ==
    [fn |-> fn, pc |-> "entry", stackId |-> a.stackId, env |-> a.env,
     content |-> a.content, pull |-> a.pull, name |-> a.name,
     containerId |-> a.containerId, opts |-> a.opts,
     request |-> a.request, action |-> a.action,
     target |-> NoContainer, ret |-> "none"]

NoArgs == Args(Undefined, Undefined, Undefined, Undefined, Undefined)

Idle == [op |-> "none", args |-> NoArgs, frames |-> <<>>, calls |-> <<>>,
         resolves |-> 0, answers |-> <<>>, events |-> <<>>, result |-> "none"]

NewTask(fn, a) ==
    [op |-> fn, args |-> a, frames |-> <<Frame(fn, a)>>, calls |-> <<>>,
     resolves |-> 0, answers |-> <<>>, events |-> <<>>, result |-> "pending"]

Top(t) == t.frames[Len(t.frames)]

SetTop(t, f) == [t EXCEPT !.frames[Len(t.frames)] = f]

Push(t, f) == [t EXCEPT !.frames = Append(t.frames, f)]

\* `return v` (or an uncaught throw, v = "throw") of the running method:
\* its promise settles, and the awaiting caller, if any, gets v.
Return(t, v) ==
    IF Len(t.frames) = 1
    THEN [t EXCEPT !.frames = <<>>, !.result = v]
    ELSE LET rest == SubSeq(t.frames, 1, Len(t.frames) - 1)
         IN [t EXCEPT !.frames = [rest EXCEPT ![Len(rest)].ret = v]]

\* this.auth.axiosInstance.<verb>(url[, body]): the request is handed to the
\* transport and the method suspends at pc until it settles.
Issue(t, c, pc) ==
    LET u == [t EXCEPT !.calls = Append(t.calls, c)]
    IN SetTop(u, [Top(u) EXCEPT !.pc = pc])

\* await this.ensureEnvId(): the resolver is invoked and the method suspends.
AwaitResolve(t) ==
    LET u == [t EXCEPT !.resolves = t.resolves + 1]
    IN SetTop(u, [Top(u) EXCEPT !.pc = "awaitResolve"])

\* the pending call (the last one issued) settles to r
Respond(t, r) == [t EXCEPT !.calls[Len(t.calls)].resp = r]

\* the pending ensureEnvId() resolves to r
Answered(t, r) == [t EXCEPT !.answers = Append(t.answers, r)]

Running(t, fn, pc) ==
    /\ t.frames # <<>>
    /\ Top(t).fn = fn
    /\ Top(t).pc = pc

(***************************************************************************)
(* Collaborators.  ensureEnvId: () => Promise<number | null>; the          *)
(* transport resolves or rejects.                                          *)
(***************************************************************************)
EnvIds == {Num(e) : e \in 1..MaxEnv}

ResolverAnswers == {Null} \cup EnvIds

TransportOutcomes == {"ok", "throw"}

(***************************************************************************)
(* Guards of StackControlsMixin.                                           *)
(***************************************************************************)
\* the stackId guard with `< 0` written for `<= 0`
InvalidStackId_ZeroPasses(x) ==
    ~TypeofNumber(x) \/ IsNaN(x) \/ x.k = "ninf" \/ (x.k = "num" /\ x.n < 0)

\* typeof stackId !== 'number' || isNaN(stackId) || stackId <= 0
InvalidStackId(x) == ~TypeofNumber(x) \/ IsNaN(x) \/ LeqZero(x)

\* environmentId !== undefined && environmentId !== null &&
\*   (typeof environmentId !== 'number' || isNaN(environmentId))
InvalidEnvironmentId(e) ==
    /\ e # Undefined
    /\ e # Null
    /\ (~TypeofNumber(e) \/ IsNaN(e))

(***************************************************************************)
(* startStack(stackId, environmentId)                                      *)
(***************************************************************************)
\* startStack without its `environmentId === null` return
startStack_Post_NoNullReturn(t) ==
    LET f == Top(t)
    IN Issue(t, Call("POST", "stacks/start", "startStack", f.stackId, f.env, NoBody),
             "awaitPost")

\* the POST of startStack, or the early return when no environment is known
startStack_Post(t) ==
    LET f == Top(t)
    IN IF f.env = Null
       THEN Return(t, "false")
       ELSE Issue(t, Call("POST", "stacks/start", "startStack", f.stackId, f.env, NoBody),
                  "awaitPost")

\* from the call up to the first await
startStack_Entry(t) ==
    LET f == Top(t)
    IN IF InvalidStackId(f.stackId) THEN Return(t, "false")
       ELSE IF InvalidEnvironmentId(f.env) THEN Return(t, "false")
       ELSE IF Nullish(f.env) THEN AwaitResolve(t)
       ELSE startStack_Post(t)

\* the POST settled, its rejection left uncaught
startStack_PostDone_Rethrown(t, outcome) ==
    IF outcome = "ok" THEN Return(t, "true") ELSE Return(t, "throw")

\* the POST settled
startStack_PostDone(t, outcome) ==
    IF outcome = "ok" THEN Return(t, "true") ELSE Return(t, "false")

(***************************************************************************)
(* stopStack(stackId, environmentId)                                       *)
(***************************************************************************)
\* stopStack posting to the start path
stopStack_Post_StartPath(t) ==
    LET f == Top(t)
    IN IF f.env = Null
       THEN Return(t, "false")
       ELSE Issue(t, Call("POST", "stacks/start", "stopStack", f.stackId, f.env, NoBody),
                  "awaitPost")

\* the POST of stopStack, or the early return when no environment is known
stopStack_Post(t) ==
    LET f == Top(t)
    IN IF f.env = Null
       THEN Return(t, "false")
       ELSE Issue(t, Call("POST", "stacks/stop", "stopStack", f.stackId, f.env, NoBody),
                  "awaitPost")

stopStack_Entry(t) ==
    LET f == Top(t)
    IN IF InvalidStackId(f.stackId) THEN Return(t, "false")
       ELSE IF InvalidEnvironmentId(f.env) THEN Return(t, "false")
       ELSE IF Nullish(f.env) THEN AwaitResolve(t)
       ELSE stopStack_Post(t)

\* the POST settled, a rejected one being sent again once
stopStack_PostDone_Retried(t, outcome) ==
    IF outcome = "ok" THEN Return(t, "true")
    ELSE IF Len(t.calls) < 3 THEN stopStack_Post(t)
    ELSE Return(t, "false")

\* the POST settled
stopStack_PostDone(t, outcome) ==
    IF outcome = "ok" THEN Return(t, "true") ELSE Return(t, "false")

(***************************************************************************)
(* updateStack(stackId, composeContent, environmentId, pullImage = true)   *)
(***************************************************************************)
IsSpace(c) == c \in {" ", "\t", "\n"}

\* String.prototype.trim: the string between its first and its last character
\* that is not white space
Trim(s) ==
    LET kept == {i \in 1..Len(s) : ~IsSpace(s[i])}
    IN IF kept = {} THEN <<>>
       ELSE SubSeq(s, CHOOSE i \in kept : \A j \in kept : i <= j,
                   CHOOSE i \in kept : \A j \in kept : j <= i)

\* typeof composeContent !== 'string' || !composeContent.trim()
InvalidComposeContent(c) == ~TypeofString(c) \/ Trim(c.s) = <<>>

\* default parameter value: pullImage: boolean = true
DefaultPullImage(p) == IF p = Undefined THEN Bool(TRUE) ELSE p

\* the PUT sending the trimmed content
updateStack_Put_Trimmed(t) ==
    LET f == Top(t)
    IN IF f.env = Null
       THEN Return(t, "false")
       ELSE Issue(t, Call("PUT", "stacks", "updateStack", f.stackId, f.env,
                          [StackFileContent |-> Str(Trim(f.content.s)),
                           Prune |-> Bool(FALSE), PullImage |-> f.pull]),
                  "awaitPut")

\* the PUT of updateStack, or the early return when no environment is known
updateStack_Put(t) ==
    LET f == Top(t)
    IN IF f.env = Null
       THEN Return(t, "false")
       ELSE Issue(t, Call("PUT", "stacks", "updateStack", f.stackId, f.env,
                          [StackFileContent |-> f.content, Prune |-> Bool(FALSE),
                           PullImage |-> f.pull]),
                  "awaitPut")

(***************************************************************************)
(* redeployStack(stackId, environmentId)                                   *)
(***************************************************************************)
StackName(n) == <<"s", ToString(n)>>

StackPool == {[Id |-> Num(n), Name |-> Str(StackName(n))] : n \in 1..MaxId}

StackLists == UNION {[1..k -> StackPool] : k \in 0..MaxStacks}

\* what `await this.getStacks()` can give: a list, undefined, or a rejection
StacksOutcomes ==
    {Resp("list", l) : l \in StackLists} \cup {Resp("undefined", <<>>), Resp("throw", <<>>)}

Event(t, e) == [t EXCEPT !.events = Append(t.events, e)]

\* the lookup taking any fetched entry for the stack
StackFound_AnyEntry(stacks, stackId) == Len(stacks) > 0

\* stacks.find(s => s.Id === stackId) found an entry
StackFound(stacks, stackId) == \E i \in 1..Len(stacks) : stacks[i].Id = stackId

\* `await this.getStacks()` at the head of the try block, or the early return
redeployStack_Locate(t) ==
    LET f == Top(t)
    IN IF f.env = Null
       THEN Return(t, "false")
       ELSE Issue(t, Call("READ", "getStacks", "redeployStack", Undefined, Undefined, NoBody),
                  "awaitStacks")

redeployStack_Entry(t) ==
    LET f == Top(t)
    IN IF InvalidStackId(f.stackId) THEN Return(t, "false")
       ELSE IF InvalidEnvironmentId(f.env) THEN AwaitResolve(t)
       ELSE redeployStack_Locate(t)

\* this.stopStack(stackId, environmentId) is called and runs to its first await
redeployStack_CallStop(t) ==
    LET f == Top(t)
        u == SetTop(Event(t, "stopCalled"), [f EXCEPT !.pc = "awaitStop"])
    IN stopStack_Entry(Push(u, Frame("stopStack",
                                     Args(f.stackId, f.env, Undefined, Undefined, Undefined))))

\* getStacks() settled: the locate stage, then the stop stage is entered
redeployStack_StacksFetched(t, out) ==
    IF out.kind = "throw" THEN Return(t, "false")
    ELSE IF out.kind = "undefined" THEN Return(t, "false")
    ELSE IF ~StackFound(out.list, Top(t).stackId) THEN Return(t, "false")
    ELSE redeployStack_CallStop(Event(t, "located"))

\* the start step calling this.startStack(stackId) without the environment
redeployStack_CallStart_EnvDropped(t) ==
    LET f == Top(t)
        u == SetTop(Event(t, "startCalled"), [f EXCEPT !.pc = "awaitStart"])
    IN startStack_Entry(Push(u, Frame("startStack",
                                      Args(f.stackId, Undefined, Undefined, Undefined,
                                           Undefined))))

\* the start step calling this.stopStack a second time
redeployStack_CallStart_StopsAgain(t) ==
    LET f == Top(t)
        u == SetTop(Event(t, "startCalled"), [f EXCEPT !.pc = "awaitStart"])
    IN stopStack_Entry(Push(u, Frame("stopStack",
                                     Args(f.stackId, f.env, Undefined, Undefined,
                                          Undefined))))

\* this.startStack(stackId, environmentId) is called and runs to its first await
redeployStack_CallStart(t) ==
    LET f == Top(t)
        u == SetTop(Event(t, "startCalled"), [f EXCEPT !.pc = "awaitStart"])
    IN startStack_Entry(Push(u, Frame("startStack",
                                      Args(f.stackId, f.env, Undefined, Undefined, Undefined))))

\* the stop step made fatal: a stop that reports failure ends the workflow
redeployStack_StopSettled_Fatal(t) ==
    LET u == Event(t, "stopSettled")
    IN IF Top(t).ret = "true"
       THEN SetTop(u, [Top(u) EXCEPT !.pc = "awaitDelay", !.ret = "none"])
       ELSE Return(u, "false")

\* the stop step without the wait: start is called as soon as stop settled
redeployStack_StopSettled_NoWait(t) == redeployStack_CallStart(Event(t, "stopSettled"))

\* stopStack settled (a rejection is swallowed with a warning); the 2000 ms
\* timer is armed
redeployStack_StopSettled(t) ==
    LET u == Event(t, "stopSettled")
    IN SetTop(u, [Top(u) EXCEPT !.pc = "awaitDelay", !.ret = "none"])

\* the timer being armed again instead of the start step being entered
redeployStack_DelayElapsed_Rearmed(t) == SetTop(t, [Top(t) EXCEPT !.pc = "awaitDelay"])

\* the timer fired
redeployStack_DelayElapsed(t) == redeployStack_CallStart(Event(t, "delayElapsed"))

\* startStack settled: its boolean is dropped; only a rejection reaches the catch
redeployStack_StartSettled(t) ==
    IF Top(t).ret = "throw"
    THEN Return(Event(t, "startSettled"), "false")
    ELSE Return(Event(t, "startSettled"), "true")

(***************************************************************************)
(* cleanupExistingContainer(containerName, environmentId)                  *)
(***************************************************************************)
\* String(x), as template literals and String.prototype.includes coerce
ToChars(x) ==
    CASE x.k = "string" -> x.s
      [] x.k = "null" -> <<"n", "u", "l", "l">>
      [] x.k = "undefined" -> <<"u", "n", "d", "e", "f", "i", "n", "e", "d">>
      [] x.k = "nan" -> <<"N", "a", "N">>
      [] x.k = "inf" -> <<"I", "n", "f", "i", "n", "i", "t", "y">>
      [] x.k = "ninf" -> <<"-", "I", "n", "f", "i", "n", "i", "t", "y">>
      [] x.k = "bool" -> IF x.n = 1 THEN <<"t", "r", "u", "e">>
                                     ELSE <<"f", "a", "l", "s", "e">>
      [] OTHER -> <<ToString(x.n)>>

\* hay.includes(needle)
Includes(hay, needle) ==
    \E i \in 1..(Len(hay) + 1) :
        /\ i + Len(needle) - 1 <= Len(hay)
        /\ SubSeq(hay, i, i + Len(needle) - 1) = needle

\* c.Names.some(name => name.includes(containerName)) ||
\* c.Names.some(name => name === `/${containerName}`)
NameMatches(c, containerName) ==
    \/ \E j \in 1..Len(c.Names) : Includes(c.Names[j], ToChars(containerName))
    \/ \E j \in 1..Len(c.Names) : c.Names[j] = <<"/">> \o ToChars(containerName)

\* the search keeping the last match instead of the first
FindContainer_LastMatch(containers, containerName) ==
    IF \E i \in 1..Len(containers) : NameMatches(containers[i], containerName)
    THEN CHOOSE i \in 1..Len(containers) :
            /\ NameMatches(containers[i], containerName)
            /\ \A j \in (i + 1)..Len(containers) :
                  ~NameMatches(containers[j], containerName)
    ELSE 0

\* containers.find(...): index of the first match, 0 when there is none
FindContainer(containers, containerName) ==
    IF \E i \in 1..Len(containers) : NameMatches(containers[i], containerName)
    THEN CHOOSE i \in 1..Len(containers) :
            /\ NameMatches(containers[i], containerName)
            /\ \A j \in 1..(i - 1) : ~NameMatches(containers[j], containerName)
    ELSE 0

NameLists == {<<<<"/", "w", "e", "b">>>>, <<<<"/", "d", "b">>>>,
              <<<<"/", "w", "e", "b", "2">>, <<"/", "x">>>>}

ContainerStates == {"running", "exited"}

ContainerAt(i, names, state) ==
    [Id |-> Str(<<"c", ToString(i)>>), Names |-> names, State |-> state]

ContainerLists ==
    UNION {{[i \in 1..k |-> ContainerAt(i, n[i], st[i])] :
               n \in [1..k -> NameLists], st \in [1..k -> ContainerStates]} :
           k \in 0..MaxContainers}

\* what `await this.getContainers(true)` can give
ContainersOutcomes ==
    {Resp("list", l) : l \in ContainerLists}
        \cup {Resp("undefined", <<>>), Resp("throw", <<>>)}

cleanup_Remove(t) ==
    LET f == Top(t)
    IN Issue(t, Call("DELETE", "containers", "cleanupExistingContainer",
                     f.target.Id, f.env, NoBody),
             "awaitDelete")

cleanup_Fetch(t) ==
    LET f == Top(t)
    IN IF f.env = Null
       THEN Return(t, "false")
       ELSE Issue(t, Call("READ", "getContainers", "cleanupExistingContainer",
                          Undefined, Undefined, NoBody),
                  "awaitContainers")

\* the DELETE settled, its outcome ignored
cleanup_DeleteDone_OutcomeIgnored(t, outcome) == Return(t, "true")

\* the DELETE settled: true, or false from the catch
cleanup_DeleteDone(t, outcome) ==
    IF outcome = "ok" THEN Return(t, "true") ELSE Return(t, "false")

(***************************************************************************)
(* deleteStack(stackId | stackName, environmentId)                         *)
(***************************************************************************)
NoStack == [Id |-> Undefined, Name |-> Undefined]

\* utils.getStackById(stackId, environmentId): the stack with that id, if any
GetStackById(stacks, stackId) ==
    IF \E i \in 1..Len(stacks) : stacks[i].Id = stackId
    THEN stacks[CHOOSE i \in 1..Len(stacks) : stacks[i].Id = stackId]
    ELSE NoStack

\* utils.getStackByName(stackName): the stack with that name, if any
GetStackByName(stacks, stackName) ==
    IF \E i \in 1..Len(stacks) : stacks[i].Name = stackName
    THEN stacks[CHOOSE i \in 1..Len(stacks) : stacks[i].Name = stackName]
    ELSE NoStack

deleteStack_Delete(t) ==
    LET f == Top(t)
    IN Issue(t, Call("DELETE", "stacks", "deleteStack", f.stackId, f.env, NoBody),
             "awaitDelete")

deleteStack_Lookup(t) ==
    LET f == Top(t)
    IN IF f.env = Null THEN Return(t, "undefined")
       ELSE IF TypeofNumber(f.stackId)
       THEN Issue(t, Call("READ", "getStackById", "deleteStack", f.stackId, f.env, NoBody),
                  "awaitById")
       ELSE IF TypeofString(f.stackId)
       THEN Issue(t, Call("READ", "getStackByName", "deleteStack", f.stackId, Undefined,
                          NoBody),
                  "awaitByName")
       ELSE deleteStack_Delete(t)

\* the lookup by id settled, its result not tested
deleteStack_ByIdDone_Unchecked(t, stack) == deleteStack_Delete(t)

\* getStackById settled: `if (!stack) return undefined`, else the DELETE
deleteStack_ByIdDone(t, stack) ==
    IF stack = NoStack THEN Return(t, "undefined") ELSE deleteStack_Delete(t)

\* the lookup by name settled, the DELETE addressed to the name itself
deleteStack_ByNameDone_NameKept(t, stack) ==
    IF stack = NoStack THEN Return(t, "undefined") ELSE deleteStack_Delete(t)

\* getStackByName settled: `if (!stack) return undefined`, else
\* `stackId = stack.Id` and the DELETE
deleteStack_ByNameDone(t, stack) ==
    IF stack = NoStack THEN Return(t, "undefined")
    ELSE deleteStack_Delete(SetTop(t, [Top(t) EXCEPT !.stackId = stack.Id]))

(***************************************************************************)
(* The container methods of PortainerApi: startContainer, stopContainer,   *)
(* removeContainer, killContainer, pauseContainer, unpauseContainer and    *)
(* restartContainer(containerId, environmentId, ...options).               *)
(***************************************************************************)
\* ToBoolean(x), as `if (x)` coerces
Truthy(x) ==
    \/ x.k = "bool" /\ x.n = 1
    \/ x.k = "string" /\ x.s # <<>>
    \/ x.k = "num" /\ x.n # 0
    \/ x.k \in {"inf", "ninf"}

\* (ms / 1000).toPrecision(2) for ms = 0 and for 100 <= ms < 99500: two
\* significant digits, rounded half up
ToPrecision2(ms) ==
    IF ms = 0 THEN <<"0", ".", "0">>
    ELSE IF ms >= 9950
    THEN LET n == (ms + 500) \div 1000 IN <<ToString(n \div 10), ToString(n % 10)>>
    ELSE IF ms >= 995
    THEN LET n == (ms + 50) \div 100 IN <<ToString(n \div 10), ".", ToString(n % 10)>>
    ELSE LET n == (ms + 5) \div 10 IN <<"0", ".", ToString(n \div 10), ToString(n % 10)>>

\* default parameter values: force = false, removeVolumes = false,
\* signal = 'SIGKILL', timeout = 10000
Default(name, x) ==
    IF x # Undefined THEN x
    ELSE CASE name = "signal" -> Str(<<"S", "I", "G", "K", "I", "L", "L">>)
           [] name = "timeout" -> Num(10000)
           [] OTHER -> Bool(FALSE)

\* params.toString() after `if (force) params.append('force', 'true')` and
\* `if (removeVolumes) params.append('v', 'true')`
RemoveParams(force, removeVolumes) ==
    (IF Truthy(force) THEN <<<<"force", <<"t", "r", "u", "e">>>>>> ELSE <<>>)
        \o (IF Truthy(removeVolumes) THEN <<<<"v", <<"t", "r", "u", "e">>>>>> ELSE <<>>)

\* the POST of startContainer, or the early return when no environment is known
startContainer_Request(t) ==
    LET f == Top(t)
    IN IF f.env = Null
       THEN Return(t, "false")
       ELSE Issue(t, Call("POST", "containers/start", "startContainer", f.containerId, f.env, NoBody),
                  "awaitRequest")

\* the POST of stopContainer, or the early return when no environment is known
stopContainer_Request(t) ==
    LET f == Top(t)
    IN IF f.env = Null
       THEN Return(t, "false")
       ELSE Issue(t, Call("POST", "containers/stop", "stopContainer", f.containerId, f.env, NoBody),
                  "awaitRequest")

\* the DELETE of removeContainer, or the early return when no environment is known
removeContainer_Request(t) ==
    LET f == Top(t)
    IN IF f.env = Null
       THEN Return(t, "false")
       ELSE Issue(t, [Call("DELETE", "containers", "removeContainer", f.containerId, f.env, NoBody) EXCEPT !.query =
                            RemoveParams(f.opts.force, f.opts.removeVolumes)],
                  "awaitRequest")

\* killContainer posting to the stop path
killContainer_Request_StopPath(t) ==
    LET f == Top(t)
    IN IF f.env = Null
       THEN Return(t, "false")
       ELSE Issue(t, Call("POST", "containers/stop", "killContainer", f.containerId, f.env,
                          NoBody),
                  "awaitRequest")

\* the POST of killContainer, or the early return when no environment is known
killContainer_Request(t) ==
    LET f == Top(t)
    IN IF f.env = Null
       THEN Return(t, "false")
       ELSE Issue(t, [Call("POST", "containers/kill", "killContainer", f.containerId, f.env, NoBody) EXCEPT !.query =
                            <<<<"signal", ToChars(f.opts.signal)>>>>],
                  "awaitRequest")

\* the POST of pauseContainer, or the early return when no environment is known
pauseContainer_Request(t) ==
    LET f == Top(t)
    IN IF f.env = Null
       THEN Return(t, "false")
       ELSE Issue(t, Call("POST", "containers/pause", "pauseContainer", f.containerId, f.env, NoBody),
                  "awaitRequest")

\* the POST of unpauseContainer, or the early return when no environment is known
unpauseContainer_Request(t) ==
    LET f == Top(t)
    IN IF f.env = Null
       THEN Return(t, "false")
       ELSE Issue(t, Call("POST", "containers/unpause", "unpauseContainer", f.containerId, f.env, NoBody),
                  "awaitRequest")

\* the POST of restartContainer, or the early return when no environment is known
restartContainer_Request(t) ==
    LET f == Top(t)
    IN IF f.env = Null
       THEN Return(t, "false")
       ELSE Issue(t, [Call("POST", "containers/restart", "restartContainer", f.containerId, f.env, NoBody) EXCEPT !.query =
                            <<<<"t", ToPrecision2(f.opts.timeout.n)>>>>],
                  "awaitRequest")

(***************************************************************************)
(* handleContainer(request) of ContainerControlsMixin: validation,         *)
(* environment resolution, dispatch of the one request.                    *)
(***************************************************************************)
\* a request that is an object (its fields are in the frame)
ObjectValue == JsVal("object", 0, <<>>)

ActionName(a) == Str(<<a>>)

KnownActions == {"start", "stop", "remove", "kill", "pause", "unpause", "restart"}

isKnownAction(a) == a.k = "string" /\ \E n \in KnownActions : a.s = <<n>>

\* a string whose trimmed form has length > 0
isNonEmptyString(x) == TypeofString(x) /\ Trim(x.s) # <<>>

\* a finite number, not NaN, > 0
isPositiveId(x) == x.k = "num" /\ x.n > 0

isOptionalEnvironmentId(x) == x = Undefined \/ x = Null \/ isPositiveId(x)

\* the options check letting a negative timeout through
validOptions_AnyNumberTimeout(o) ==
    /\ o.force = Undefined \/ o.force.k = "bool"
    /\ o.removeVolumes = Undefined \/ o.removeVolumes.k = "bool"
    /\ o.signal = Undefined \/ o.signal.k = "string"
    /\ o.timeout = Undefined \/ o.timeout.k \in {"num", "inf"}

\* force / removeVolumes boolean, signal a string, timeout a non-negative
\* number, each when supplied
validOptions(o) ==
    /\ o.force = Undefined \/ o.force.k = "bool"
    /\ o.removeVolumes = Undefined \/ o.removeVolumes.k = "bool"
    /\ o.signal = Undefined \/ o.signal.k = "string"
    /\ o.timeout = Undefined \/ (o.timeout.k = "num" /\ o.timeout.n >= 0)
                             \/ o.timeout.k = "inf"

\* the one request of the action, by the dispatch table (verb, path suffix and
\* query of the action), or false when no environment is known
handleContainer_Dispatch(t) ==
    LET f == Top(t)
        a == f.action
        o == f.opts
        DispatchVerb == IF a = ActionName("remove") THEN "DELETE" ELSE "POST"
        DispatchPath ==
            IF a = ActionName("remove") THEN "containers" ELSE "containers/" \o a.s[1]
        DispatchQuery ==
            CASE a = ActionName("remove") ->
                    RemoveParams(Default("force", o.force), Default("removeVolumes", o.removeVolumes))
              [] a = ActionName("kill") -> <<<<"signal", ToChars(Default("signal", o.signal))>>>>
              [] a = ActionName("restart") -> <<<<"t", ToPrecision2(Default("timeout", o.timeout).n)>>>>
              [] OTHER -> <<>>
    IN IF f.env = Null
       THEN Return(t, "false")
       ELSE Issue(t, [Call(DispatchVerb, DispatchPath, "handleContainer", f.containerId,
                           f.env, NoBody)
                        EXCEPT !.query = DispatchQuery],
                  "awaitRequest")

\* validation in the stated order, then resolution of an absent environment
handleContainer_Entry(t) ==
    LET f == Top(t)
    IN IF f.request # ObjectValue THEN Return(t, "false")
       ELSE IF ~isKnownAction(f.action) THEN Return(t, "false")
       ELSE IF ~isNonEmptyString(f.containerId) THEN Return(t, "false")
       ELSE IF ~isOptionalEnvironmentId(f.env) THEN Return(t, "false")
       ELSE IF ~validOptions(f.opts) THEN Return(t, "false")
       ELSE IF Nullish(f.env) THEN AwaitResolve(t)
       ELSE handleContainer_Dispatch(t)

\* handleContainer({action, containerId, environmentId, options})
RequestArgs(request, action, containerId, env, opts) ==
    [ContainerArgs(containerId, env, opts) EXCEPT !.request = request, !.action = action]

(***************************************************************************)
(* ensureEnvId() of the environment mixin and utils.getFirstEnvironmentId. *)
(* The frame's env is the instance field this.environmentId.               *)
(***************************************************************************)
EnvironmentPool == {[Id |-> e] : e \in EnvIds}

EnvironmentLists == UNION {[1..k -> EnvironmentPool] : k \in 0..MaxEnv}

\* what `await portainerClient.getEnvironments()` can give
EnvironmentsOutcomes ==
    {Resp("list", l) : l \in EnvironmentLists}
        \cup {Resp("undefined", <<>>), Resp("throw", <<>>)}

\* the value a Promise<number | null> settled to, as kept in result and ret
IdResult(x) == IF x = Null THEN "null" ELSE ToString(x.n)

\* the entry taken being the last one of the collection
getFirstEnvironmentId_Fetched_LastEntry(t, out) ==
    IF out.kind = "list" /\ Len(out.list) > 0
    THEN Return(t, IdResult(out.list[Len(out.list)].Id))
    ELSE Return(t, "null")

\* getEnvironments() settled: environments[0].Id, or null for an empty
\* collection; a rejection, or `.length` of undefined, lands in the catch
getFirstEnvironmentId_Fetched(t, out) ==
    IF out.kind = "throw" THEN Return(t, "null")
    ELSE IF out.kind = "undefined" THEN Return(t, "null")
    ELSE IF Len(out.list) > 0 THEN Return(t, IdResult(out.list[1].Id))
    ELSE Return(t, "null")

(***************************************************************************)
(* Inputs a caller can pass (the parameters are typed, but the methods     *)
(* check them at run time, so untyped callers are covered).                *)
(***************************************************************************)
StackIdInputs ==
    {Undefined, Null, NaN, PosInf, NegInf, Str(<<"x">>)} \cup {Num(n) : n \in -1..MaxId}

EnvInputs ==
    {Undefined, Null, NaN, PosInf, Str(<<"x">>)} \cup {Num(n) : n \in -1..MaxEnv}

ContentInputs ==
    {Str(<<"v">>), Str(<<" ", "v">>), Str(<<>>), Str(<<" ">>), Undefined, Num(1)}

PullInputs == {Undefined, Bool(TRUE), Bool(FALSE)}

NameInputs ==
    {Str(<<"w", "e", "b">>), Str(<<"w", "e">>), Str(<<"d", "b">>), Str(<<>>), Null}

StackRefInputs == StackIdInputs \cup {Str(StackName(1)), Str(<<>>), Str(<<" ">>)}

ContainerIdInputs == {Str(<<"c", "1">>), Str(<<>>), Null}

FlagInputs == {Undefined, Bool(TRUE), Bool(FALSE)}

SignalInputs == {Undefined, Str(<<"S", "I", "G", "T", "E", "R", "M">>)}

TimeoutInputs == {Undefined, Num(0), Num(500), Num(1500)}

NoOptions == Options(Undefined, Undefined, Undefined, Undefined)

\* what handleContainer can be given in place of a request object
NonObjectInputs == {Null, Undefined, Str(<<"x">>), Num(123)}

ActionInputs ==
    {ActionName(a) : a \in KnownActions}
        \cup {Null, Num(123), Str(<<>>), ActionName("unknown")}

RequestContainerIds == ContainerIdInputs \cup {Num(123), Str(<<" ">>)}

\* the options a request can carry for its action
OptionInputs(a) ==
    CASE a = ActionName("remove") ->
            {Options(fo, rv, Undefined, Undefined) :
                fo \in FlagInputs \cup {Str(<<"y">>)}, rv \in FlagInputs \cup {Num(1)}}
      [] a = ActionName("kill") ->
            {Options(Undefined, Undefined, sg, Undefined) :
                sg \in SignalInputs \cup {Num(123)}}
      [] a = ActionName("restart") ->
            {Options(Undefined, Undefined, Undefined, ms) :
                ms \in TimeoutInputs \cup {Str(<<"1", "0">>), Num(-5)}}
      [] OTHER -> {NoOptions}

\* this.environmentId: number | null
EnvironmentIdFields == {Null} \cup EnvIds

\* no invocation is in flight and the last result has been taken
NoCall == inv = Idle

\* the outermost method's promise has settled
Settled == inv.op # "none" /\ inv.frames = <<>>

Init == inv = Idle

(***************************************************************************)
(* Actions: a call of a public method (which runs to its first await), and *)
(* the continuation after each await.                                      *)
(***************************************************************************)
StartStackCall ==
    /\ NoCall
    /\ \E sid \in StackIdInputs, e \in EnvInputs :
          inv' = startStack_Entry(NewTask("startStack",
                                          Args(sid, e, Undefined, Undefined, Undefined)))

StartStackResolved ==
    /\ Running(inv, "startStack", "awaitResolve")
    /\ \E r \in ResolverAnswers : inv' = LET t == Answered(inv, r)
                                         IN startStack_Post(SetTop(t, [Top(t) EXCEPT !.env = r]))

StartStackPostDone ==
    /\ Running(inv, "startStack", "awaitPost")
    /\ \E o \in TransportOutcomes : inv' = startStack_PostDone(Respond(inv, Resp(o, <<>>)), o)

StopStackCall ==
    /\ NoCall
    /\ \E sid \in StackIdInputs, e \in EnvInputs :
          inv' = stopStack_Entry(NewTask("stopStack",
                                         Args(sid, e, Undefined, Undefined, Undefined)))

StopStackResolved ==
    /\ Running(inv, "stopStack", "awaitResolve")
    /\ \E r \in ResolverAnswers : inv' = LET t == Answered(inv, r)
                                         IN stopStack_Post(SetTop(t, [Top(t) EXCEPT !.env = r]))

StopStackPostDone ==
    /\ Running(inv, "stopStack", "awaitPost")
    /\ \E o \in TransportOutcomes : inv' = stopStack_PostDone(Respond(inv, Resp(o, <<>>)), o)

UpdateStackCall ==
    /\ NoCall
    /\ \E sid \in StackIdInputs, c \in ContentInputs, e \in EnvInputs, p \in PullInputs :
          inv' = LET t == NewTask("updateStack", Args(sid, e, c, p, Undefined))
                 IN LET f == [Top(t) EXCEPT !.pull = DefaultPullImage(Top(t).pull)]
                        u == SetTop(t, f)
                    IN IF InvalidStackId(f.stackId) THEN Return(u, "false")
                       ELSE IF InvalidComposeContent(f.content) THEN Return(u, "false")
                       ELSE IF InvalidEnvironmentId(f.env) THEN AwaitResolve(u)
                       ELSE updateStack_Put(u)

UpdateStackResolved ==
    /\ Running(inv, "updateStack", "awaitResolve")
    /\ \E r \in ResolverAnswers : inv' = LET t == Answered(inv, r)
                                         IN updateStack_Put(SetTop(t, [Top(t) EXCEPT !.env = r]))

UpdateStackPutDone ==
    /\ Running(inv, "updateStack", "awaitPut")
    /\ \E o \in TransportOutcomes : inv' = LET t == Respond(inv, Resp(o, <<>>))
                                               outcome == o
                                           IN IF outcome = "ok" THEN Return(t, "true") ELSE Return(t, "false")

RedeployStackCall ==
    /\ NoCall
    /\ \E sid \in StackIdInputs, e \in EnvInputs :
          inv' = redeployStack_Entry(NewTask("redeployStack",
                                             Args(sid, e, Undefined, Undefined, Undefined)))

RedeployStackResolved ==
    /\ Running(inv, "redeployStack", "awaitResolve")
    /\ \E r \in ResolverAnswers : inv' = LET t == Answered(inv, r)
                                         IN redeployStack_Locate(SetTop(t, [Top(t) EXCEPT !.env = r]))

RedeployStackStacksFetched ==
    /\ Running(inv, "redeployStack", "awaitStacks")
    /\ \E out \in StacksOutcomes :
          inv' = redeployStack_StacksFetched(Respond(inv, out), out)

RedeployStackStopSettled ==
    /\ Running(inv, "redeployStack", "awaitStop")
    /\ inv' = redeployStack_StopSettled(inv)

RedeployStackDelayElapsed ==
    /\ Running(inv, "redeployStack", "awaitDelay")
    /\ inv' = redeployStack_DelayElapsed(inv)

RedeployStackStartSettled ==
    /\ Running(inv, "redeployStack", "awaitStart")
    /\ inv' = redeployStack_StartSettled(inv)

CleanupCall ==
    /\ NoCall
    /\ \E n \in NameInputs, e \in EnvInputs :
          inv' = LET t == NewTask("cleanupExistingContainer", Args(Undefined, e, Undefined, Undefined, n))
                 IN IF Nullish(Top(t).env) THEN AwaitResolve(t) ELSE cleanup_Fetch(t)

CleanupResolved ==
    /\ Running(inv, "cleanupExistingContainer", "awaitResolve")
    /\ \E r \in ResolverAnswers : inv' = LET t == Answered(inv, r)
                                         IN cleanup_Fetch(SetTop(t, [Top(t) EXCEPT !.env = r]))

CleanupContainersFetched ==
    /\ Running(inv, "cleanupExistingContainer", "awaitContainers")
    /\ \E out \in ContainersOutcomes :
          inv' = LET t == Respond(inv, out)
                 IN IF out.kind = "throw" THEN Return(t, "false")
                    ELSE IF out.kind = "undefined" THEN Return(t, "false")
                    ELSE LET i == FindContainer(out.list, Top(t).name)
                         IN IF i = 0 THEN Return(t, "false")
                            ELSE LET u == SetTop(t, [Top(t) EXCEPT !.target = out.list[i]])
                                 IN IF out.list[i].State = "running"
                                    THEN Issue(u, Call("POST", "containers/stop",
                                                       "cleanupExistingContainer",
                                                       out.list[i].Id, Top(u).env, NoBody),
                                               "awaitStop")
                                    ELSE cleanup_Remove(u)

CleanupStopDone ==
    /\ Running(inv, "cleanupExistingContainer", "awaitStop")
    /\ \E o \in TransportOutcomes : inv' = LET t == Respond(inv, Resp(o, <<>>))
                                               outcome == o
                                           IN IF outcome = "ok" THEN cleanup_Remove(t) ELSE Return(t, "false")

CleanupDeleteDone ==
    /\ Running(inv, "cleanupExistingContainer", "awaitDelete")
    /\ \E o \in TransportOutcomes : inv' = cleanup_DeleteDone(Respond(inv, Resp(o, <<>>)), o)

DeleteStackCall ==
    /\ NoCall
    /\ \E ref \in StackRefInputs, e \in EnvInputs :
          inv' = LET t == NewTask("deleteStack", Args(ref, e, Undefined, Undefined, Undefined))
                 IN IF Nullish(Top(t).env) THEN AwaitResolve(t) ELSE deleteStack_Lookup(t)

DeleteStackResolved ==
    /\ Running(inv, "deleteStack", "awaitResolve")
    /\ \E r \in ResolverAnswers : inv' = LET t == Answered(inv, r)
                                         IN deleteStack_Lookup(SetTop(t, [Top(t) EXCEPT !.env = r]))

DeleteStackByIdDone ==
    /\ Running(inv, "deleteStack", "awaitById")
    /\ \E l \in StackLists :
          inv' = deleteStack_ByIdDone(Respond(inv, Resp("list", l)),
                                      GetStackById(l, Top(inv).stackId))

DeleteStackByNameDone ==
    /\ Running(inv, "deleteStack", "awaitByName")
    /\ \E l \in StackLists :
          inv' = deleteStack_ByNameDone(Respond(inv, Resp("list", l)),
                                        GetStackByName(l, Top(inv).stackId))

DeleteStackDeleteDone ==
    /\ Running(inv, "deleteStack", "awaitDelete")
    /\ \E o \in TransportOutcomes : inv' = LET t == Respond(inv, Resp(o, <<>>))
                                               outcome == o
                                           IN IF outcome = "ok" THEN Return(t, "data") ELSE Return(t, "undefined")

StartContainerCall ==
    /\ NoCall
    /\ \E cid \in ContainerIdInputs, e \in EnvInputs :
          inv' = LET t == NewTask("startContainer", ContainerArgs(cid, e, NoOptions))
                 IN IF Nullish(Top(t).env) THEN AwaitResolve(t) ELSE startContainer_Request(t)

StartContainerResolved ==
    /\ Running(inv, "startContainer", "awaitResolve")
    /\ \E r \in ResolverAnswers : inv' = LET t == Answered(inv, r)
                                         IN startContainer_Request(SetTop(t, [Top(t) EXCEPT !.env = r]))

StartContainerRequestDone ==
    /\ Running(inv, "startContainer", "awaitRequest")
    /\ \E o \in TransportOutcomes :
          inv' = LET t == Respond(inv, Resp(o, <<>>))
                     outcome == o
                 IN IF outcome = "ok" THEN Return(t, "true") ELSE Return(t, "false")

StopContainerCall ==
    /\ NoCall
    /\ \E cid \in ContainerIdInputs, e \in EnvInputs :
          inv' = LET t == NewTask("stopContainer", ContainerArgs(cid, e, NoOptions))
                 IN IF Nullish(Top(t).env) THEN AwaitResolve(t) ELSE stopContainer_Request(t)

StopContainerResolved ==
    /\ Running(inv, "stopContainer", "awaitResolve")
    /\ \E r \in ResolverAnswers : inv' = LET t == Answered(inv, r)
                                         IN stopContainer_Request(SetTop(t, [Top(t) EXCEPT !.env = r]))

StopContainerRequestDone ==
    /\ Running(inv, "stopContainer", "awaitRequest")
    /\ \E o \in TransportOutcomes :
          inv' = LET t == Respond(inv, Resp(o, <<>>))
                     outcome == o
                 IN IF outcome = "ok" THEN Return(t, "true") ELSE Return(t, "false")

RemoveContainerCall ==
    /\ NoCall
    /\ \E cid \in ContainerIdInputs, e \in EnvInputs, fo \in FlagInputs, rv \in FlagInputs :
          inv' = LET t == NewTask("removeContainer", ContainerArgs(cid, e, Options(fo, rv, Undefined, Undefined)))
                 IN LET u == SetTop(t, [Top(t) EXCEPT !.opts.force = Default("force", Top(t).opts.force),
                                         !.opts.removeVolumes = Default("removeVolumes", Top(t).opts.removeVolumes)])
                    IN IF Nullish(Top(u).env) THEN AwaitResolve(u) ELSE removeContainer_Request(u)

RemoveContainerResolved ==
    /\ Running(inv, "removeContainer", "awaitResolve")
    /\ \E r \in ResolverAnswers : inv' = LET t == Answered(inv, r)
                                         IN removeContainer_Request(SetTop(t, [Top(t) EXCEPT !.env = r]))

RemoveContainerRequestDone ==
    /\ Running(inv, "removeContainer", "awaitRequest")
    /\ \E o \in TransportOutcomes :
          inv' = LET t == Respond(inv, Resp(o, <<>>))
                     outcome == o
                 IN IF outcome = "ok" THEN Return(t, "true") ELSE Return(t, "false")

KillContainerCall ==
    /\ NoCall
    /\ \E cid \in ContainerIdInputs, e \in EnvInputs, sg \in SignalInputs :
          inv' = LET t == NewTask("killContainer", ContainerArgs(cid, e, Options(Undefined, Undefined, sg, Undefined)))
                 IN LET u == SetTop(t, [Top(t) EXCEPT !.opts.signal = Default("signal", Top(t).opts.signal)])
                    IN IF Nullish(Top(u).env) THEN AwaitResolve(u) ELSE killContainer_Request(u)

KillContainerResolved ==
    /\ Running(inv, "killContainer", "awaitResolve")
    /\ \E r \in ResolverAnswers : inv' = LET t == Answered(inv, r)
                                         IN killContainer_Request(SetTop(t, [Top(t) EXCEPT !.env = r]))

KillContainerRequestDone ==
    /\ Running(inv, "killContainer", "awaitRequest")
    /\ \E o \in TransportOutcomes :
          inv' = LET t == Respond(inv, Resp(o, <<>>))
                     outcome == o
                 IN IF outcome = "ok" THEN Return(t, "true") ELSE Return(t, "false")

PauseContainerCall ==
    /\ NoCall
    /\ \E cid \in ContainerIdInputs, e \in EnvInputs :
          inv' = LET t == NewTask("pauseContainer", ContainerArgs(cid, e, NoOptions))
                 IN IF Nullish(Top(t).env) THEN AwaitResolve(t) ELSE pauseContainer_Request(t)

PauseContainerResolved ==
    /\ Running(inv, "pauseContainer", "awaitResolve")
    /\ \E r \in ResolverAnswers : inv' = LET t == Answered(inv, r)
                                         IN pauseContainer_Request(SetTop(t, [Top(t) EXCEPT !.env = r]))

PauseContainerRequestDone ==
    /\ Running(inv, "pauseContainer", "awaitRequest")
    /\ \E o \in TransportOutcomes :
          inv' = LET t == Respond(inv, Resp(o, <<>>))
                     outcome == o
                 IN IF outcome = "ok" THEN Return(t, "true") ELSE Return(t, "false")

UnpauseContainerCall ==
    /\ NoCall
    /\ \E cid \in ContainerIdInputs, e \in EnvInputs :
          inv' = LET t == NewTask("unpauseContainer", ContainerArgs(cid, e, NoOptions))
                 IN IF Nullish(Top(t).env) THEN AwaitResolve(t) ELSE unpauseContainer_Request(t)

UnpauseContainerResolved ==
    /\ Running(inv, "unpauseContainer", "awaitResolve")
    /\ \E r \in ResolverAnswers : inv' = LET t == Answered(inv, r)
                                         IN unpauseContainer_Request(SetTop(t, [Top(t) EXCEPT !.env = r]))

UnpauseContainerRequestDone ==
    /\ Running(inv, "unpauseContainer", "awaitRequest")
    /\ \E o \in TransportOutcomes :
          inv' = LET t == Respond(inv, Resp(o, <<>>))
                     outcome == o
                 IN IF outcome = "ok" THEN Return(t, "true") ELSE Return(t, "false")

RestartContainerCall ==
    /\ NoCall
    /\ \E cid \in ContainerIdInputs, e \in EnvInputs, ms \in TimeoutInputs :
          inv' = LET t == NewTask("restartContainer", ContainerArgs(cid, e, Options(Undefined, Undefined, Undefined, ms)))
                 IN LET u == SetTop(t, [Top(t) EXCEPT !.opts.timeout = Default("timeout", Top(t).opts.timeout)])
                    IN IF Nullish(Top(u).env) THEN AwaitResolve(u) ELSE restartContainer_Request(u)

RestartContainerResolved ==
    /\ Running(inv, "restartContainer", "awaitResolve")
    /\ \E r \in ResolverAnswers : inv' = LET t == Answered(inv, r)
                                         IN restartContainer_Request(SetTop(t, [Top(t) EXCEPT !.env = r]))

RestartContainerRequestDone ==
    /\ Running(inv, "restartContainer", "awaitRequest")
    /\ \E o \in TransportOutcomes :
          inv' = LET t == Respond(inv, Resp(o, <<>>))
                     outcome == o
                 IN IF outcome = "ok" THEN Return(t, "true") ELSE Return(t, "false")

HandleContainerCall ==
    /\ NoCall
    /\ \/ \E x \in NonObjectInputs :
             inv' = handleContainer_Entry(NewTask("handleContainer",
                        RequestArgs(x, Undefined, Undefined, Undefined, NoOptions)))
       \/ \E a \in ActionInputs, cid \in RequestContainerIds, e \in EnvInputs :
             \E o \in OptionInputs(a) :
                 inv' = handleContainer_Entry(NewTask("handleContainer",
                            RequestArgs(ObjectValue, a, cid, e, o)))

HandleContainerResolved ==
    /\ Running(inv, "handleContainer", "awaitResolve")
    /\ \E r \in ResolverAnswers : inv' = LET t == Answered(inv, r)
                                         IN handleContainer_Dispatch(SetTop(t, [Top(t) EXCEPT !.env = r]))

HandleContainerRequestDone ==
    /\ Running(inv, "handleContainer", "awaitRequest")
    /\ \E o \in TransportOutcomes :
          inv' = LET t == Respond(inv, Resp(o, <<>>))
                     outcome == o
                 IN IF outcome = "ok" THEN Return(t, "true") ELSE Return(t, "false")

EnsureEnvIdCall ==
    /\ NoCall
    /\ \E e \in EnvironmentIdFields :
          inv' = LET t == NewTask("ensureEnvId", Args(Undefined, e, Undefined, Undefined, Undefined))
                 IN LET f == Top(t)
                    IN IF f.env # Null
                       THEN Return(t, IdResult(f.env))
                       ELSE LET g == Push(SetTop(t, [f EXCEPT !.pc = "awaitFirst"]),
                                          Frame("getFirstEnvironmentId", NoArgs))
                            IN Issue(g, Call("READ", "getEnvironments", "getFirstEnvironmentId",
                                             Undefined, Undefined, NoBody),
                                     "awaitEnvironments")

GetFirstEnvironmentIdFetched ==
    /\ Running(inv, "getFirstEnvironmentId", "awaitEnvironments")
    /\ \E out \in EnvironmentsOutcomes :
          inv' = getFirstEnvironmentId_Fetched(Respond(inv, out), out)

EnsureEnvIdFirstSettled ==
    /\ Running(inv, "ensureEnvId", "awaitFirst")
    /\ inv' = LET t == inv
              IN Return(t, Top(t).ret)

\* the caller's `await instance.method(...)` takes the settled result
ResultAwaited ==
    /\ Settled
    /\ inv' = Idle

Next ==
    \/ StartStackCall
    \/ StartStackResolved
    \/ StartStackPostDone
    \/ StopStackCall
    \/ StopStackResolved
    \/ StopStackPostDone
    \/ UpdateStackCall
    \/ UpdateStackResolved
    \/ UpdateStackPutDone
    \/ RedeployStackCall
    \/ RedeployStackResolved
    \/ RedeployStackStacksFetched
    \/ RedeployStackStopSettled
    \/ RedeployStackDelayElapsed
    \/ RedeployStackStartSettled
    \/ CleanupCall
    \/ CleanupResolved
    \/ CleanupContainersFetched
    \/ CleanupStopDone
    \/ CleanupDeleteDone
    \/ DeleteStackCall
    \/ DeleteStackResolved
    \/ DeleteStackByIdDone
    \/ DeleteStackByNameDone
    \/ DeleteStackDeleteDone
    \/ StartContainerCall
    \/ StartContainerResolved
    \/ StartContainerRequestDone
    \/ StopContainerCall
    \/ StopContainerResolved
    \/ StopContainerRequestDone
    \/ RemoveContainerCall
    \/ RemoveContainerResolved
    \/ RemoveContainerRequestDone
    \/ KillContainerCall
    \/ KillContainerResolved
    \/ KillContainerRequestDone
    \/ PauseContainerCall
    \/ PauseContainerResolved
    \/ PauseContainerRequestDone
    \/ UnpauseContainerCall
    \/ UnpauseContainerResolved
    \/ UnpauseContainerRequestDone
    \/ RestartContainerCall
    \/ RestartContainerResolved
    \/ RestartContainerRequestDone
    \/ HandleContainerCall
    \/ HandleContainerResolved
    \/ HandleContainerRequestDone
    \/ EnsureEnvIdCall
    \/ GetFirstEnvironmentIdFetched
    \/ EnsureEnvIdFirstSettled
    \/ ResultAwaited

Spec == Init /\ [][Next]_vars

\* Every awaited promise of a redeployStack invocation settles and the event
\* loop then runs the continuation: the resolver answers, getStacks() and
\* the POSTs of stopStack / startStack resolve or reject, the 2000 ms timer
\* fires.
LiveSpec ==
    /\ Init
    /\ [][Next]_vars
    /\ WF_vars(RedeployStackResolved)
    /\ WF_vars(RedeployStackStacksFetched)
    /\ WF_vars(RedeployStackStopSettled)
    /\ WF_vars(RedeployStackDelayElapsed)
    /\ WF_vars(RedeployStackStartSettled)
    /\ WF_vars(StopStackResolved)
    /\ WF_vars(StopStackPostDone)
    /\ WF_vars(StartStackResolved)
    /\ WF_vars(StartStackPostDone)

(***************************************************************************)
(* Several redeployStack invocations in flight on one client, for one      *)
(* stack and one environment given by the callers.  Here inv holds the     *)
(* invocations (tasks, each as in Spec) and wire, the POSTs in the order   *)
(* the client handed them to the transport.  The invocations interleave at *)
(* their awaits.                                                           *)
(***************************************************************************)
\* invocation k moves to t2; the POSTs t2 issued beyond those of the task
\* before the step go on the wire, tagged with the invocation
StepTask(k, t2) ==
    LET t1 == inv.tasks[k]
        IsPost(c) == c.verb = "POST"
        new == SelectSeq(SubSeq(t2.calls, Len(t1.calls) + 1, Len(t2.calls)), IsPost)
        Sent == [i \in 1..Len(new) |->
                    [task |-> k, verb |-> new[i].verb, ep |-> new[i].ep,
                     id |-> new[i].id, env |-> new[i].env]]
    IN inv' = [inv EXCEPT !.tasks[k] = t2, !.wire = inv.wire \o Sent]

\* getStacks() of a client whose server holds the stack alone, or nothing
SharedStacksOutcomes(stackId) ==
    {Resp("list", <<st>>) : st \in {p \in StackPool : p.Id = stackId}}
        \cup {Resp("list", <<>>), Resp("throw", <<>>)}

ConcInit ==
    \E sid \in {Num(n) : n \in 1..MaxId} :
        inv = [op |-> "clients", stackId |-> sid, env |-> Num(1),
               tasks |-> [k \in 1..MaxTasks |-> Idle], wire |-> <<>>]

ConcRedeployCall ==
    \E k \in 1..MaxTasks :
        /\ inv.tasks[k] = Idle
        /\ StepTask(k, redeployStack_Entry(
                           NewTask("redeployStack",
                                   Args(inv.stackId, inv.env, Undefined, Undefined,
                                        Undefined))))

ConcStacksFetched ==
    \E k \in 1..MaxTasks :
        /\ Running(inv.tasks[k], "redeployStack", "awaitStacks")
        /\ \E out \in SharedStacksOutcomes(inv.stackId) :
              StepTask(k, redeployStack_StacksFetched(Respond(inv.tasks[k], out), out))

ConcStopPostDone ==
    \E k \in 1..MaxTasks :
        /\ Running(inv.tasks[k], "stopStack", "awaitPost")
        /\ \E o \in TransportOutcomes :
              StepTask(k, stopStack_PostDone(Respond(inv.tasks[k], Resp(o, <<>>)), o))

ConcStopSettled ==
    \E k \in 1..MaxTasks :
        /\ Running(inv.tasks[k], "redeployStack", "awaitStop")
        /\ StepTask(k, redeployStack_StopSettled(inv.tasks[k]))

ConcDelayElapsed ==
    \E k \in 1..MaxTasks :
        /\ Running(inv.tasks[k], "redeployStack", "awaitDelay")
        /\ StepTask(k, redeployStack_DelayElapsed(inv.tasks[k]))

ConcStartPostDone ==
    \E k \in 1..MaxTasks :
        /\ Running(inv.tasks[k], "startStack", "awaitPost")
        /\ \E o \in TransportOutcomes :
              StepTask(k, startStack_PostDone(Respond(inv.tasks[k], Resp(o, <<>>)), o))

ConcStartSettled ==
    \E k \in 1..MaxTasks :
        /\ Running(inv.tasks[k], "redeployStack", "awaitStart")
        /\ StepTask(k, redeployStack_StartSettled(inv.tasks[k]))

ConcNext ==
    \/ ConcRedeployCall
    \/ ConcStacksFetched
    \/ ConcStopPostDone
    \/ ConcStopSettled
    \/ ConcDelayElapsed
    \/ ConcStartPostDone
    \/ ConcStartSettled

ConcSpec == ConcInit /\ [][ConcNext]_vars

(***************************************************************************)
(* Observations on the log of the invocation in flight.                    *)
(***************************************************************************)
StackOps == {"startStack", "stopStack", "updateStack", "redeployStack"}

CallsTo(ep) == {i \in 1..Len(inv.calls) : inv.calls[i].ep = ep}

\* requests handed to the transport by the stack primitives
Requests == {i \in 1..Len(inv.calls) : inv.calls[i].verb # "READ"}

\* the fetched stack list holds an entry whose Id is the stackId argument
ListHolds(resp) ==
    /\ resp.kind = "list"
    /\ \E k \in 1..Len(resp.list) : resp.list[k].Id = inv.args.stackId

FetchedAndHeld == \E i \in CallsTo("getStacks") : ListHolds(inv.calls[i].resp)

FetchedAndMissing ==
    \E i \in CallsTo("getStacks") :
        \/ inv.calls[i].resp.kind = "undefined"
        \/ inv.calls[i].resp.kind = "list" /\ ~ListHolds(inv.calls[i].resp)

Happened(e) == \E i \in 1..Len(inv.events) : inv.events[i] = e

\* a finite number greater than 0
FinitePositive(x) == x.k = "num" /\ x.n > 0

(***************************************************************************)
(* C1: in redeployStack, once the stack is located, a start POST that      *)
(* fails makes the result false, and the result is true only if a start    *)
(* POST was issued and did not fail (stated for a caller-given             *)
(* environment, so that no resolution is involved).                        *)
(***************************************************************************)
C1_StartFailureIsFatal ==
    (inv.op = "redeployStack" /\ Settled /\ FetchedAndHeld /\ inv.args.env \in EnvIds) =>
        /\ (\E i \in CallsTo("stacks/start") : inv.calls[i].resp.kind = "throw")
              => inv.result = "false"
        /\ inv.result = "true"
              => \E i \in CallsTo("stacks/start") : inv.calls[i].resp.kind = "ok"

(***************************************************************************)
(* C2: redeployStack returns false without a stop or start call when the   *)
(* fetched stack list is undefined or has no entry with Id = stackId, and  *)
(* a stop or start call is only ever issued after a fetch that held the    *)
(* stack.                                                                  *)
(***************************************************************************)
C2_LocatePrecedesMutation ==
    inv.op = "redeployStack" =>
        /\ (Settled /\ FetchedAndMissing) =>
              /\ inv.result = "false"
              /\ CallsTo("stacks/stop") = {}
              /\ CallsTo("stacks/start") = {}
        /\ \A i \in CallsTo("stacks/stop") \cup CallsTo("stacks/start") :
              \E j \in CallsTo("getStacks") : j < i /\ ListHolds(inv.calls[j].resp)

C2_Witness ==
    /\ inv.op = "redeployStack"
    /\ Settled
    /\ \E i \in CallsTo("getStacks") :
          /\ inv.calls[i].resp.kind = "list"
          /\ Len(inv.calls[i].resp.list) > 0
          /\ ~ListHolds(inv.calls[i].resp)
    /\ inv.result = "false"

(***************************************************************************)
(* C3: every request of startStack, stopStack, updateStack and             *)
(* redeployStack carries an environment id that is the caller's validated  *)
(* number or a non-null resolver answer, never undefined or null (stated   *)
(* for a stackId that is a finite positive number).                        *)
(***************************************************************************)
C3_EnvironmentAlwaysResolved ==
    (inv.op \in StackOps /\ FinitePositive(inv.args.stackId)) =>
        \A i \in Requests :
            LET e == inv.calls[i].env
            IN /\ e # Undefined
               /\ e # Null
               /\ \/ e = inv.args.env /\ TypeofNumber(e) /\ ~IsNaN(e)
                  \/ \E j \in 1..Len(inv.answers) : inv.answers[j] = e

(***************************************************************************)
(* C4: redeployStack called without an environmentId, the resolver         *)
(* answering null, returns false and issues no call: no stack-list fetch,  *)
(* no stop, no start.                                                      *)
(***************************************************************************)
C4_RedeployAbortsWithoutEnvironment ==
    ( /\ inv.op = "redeployStack"
      /\ Settled
      /\ Nullish(inv.args.env)
      /\ inv.answers # <<>>
      /\ \A j \in 1..Len(inv.answers) : inv.answers[j] = Null ) =>
        /\ inv.result = "false"
        /\ inv.calls = <<>>

(***************************************************************************)
(* C5: in redeployStack a stop POST that fails does not keep startStack    *)
(* from being called (and, the environment being given, from issuing its   *)
(* POST), and the result is the one a successful stop gives.               *)
(***************************************************************************)
StopSettledAs(kind) == \E i \in CallsTo("stacks/stop") : inv.calls[i].resp.kind = kind

C5_StopIsBestEffort ==
    (inv.op = "redeployStack" /\ Settled) =>
        /\ (StopSettledAs("throw") \/ StopSettledAs("ok")) =>
              /\ Happened("startCalled")
              /\ inv.result = "true"
        /\ (StopSettledAs("throw") /\ ~Nullish(inv.args.env)) =>
              \E i \in CallsTo("stacks/stop"), j \in CallsTo("stacks/start") : i < j

C5_Witness ==
    /\ inv.op = "redeployStack"
    /\ Settled
    /\ StopSettledAs("throw")
    /\ \E j \in CallsTo("stacks/start") : inv.calls[j].resp.kind = "ok"

(***************************************************************************)
(* C6: a redeployStack invocation that located the stack goes through      *)
(* stop attempt, stop settled, delay elapsed, start attempt, in that       *)
(* order and each once; a start POST is issued only after the stop POST    *)
(* settled and the delay elapsed.                                          *)
(***************************************************************************)
RedeployStages ==
    <<"located", "stopCalled", "stopSettled", "delayElapsed", "startCalled", "startSettled">>

C6_StagesInOrder ==
    inv.op = "redeployStack" =>
        /\ Len(inv.events) <= Len(RedeployStages)
        /\ inv.events = SubSeq(RedeployStages, 1, Len(inv.events))
        /\ \A i \in CallsTo("stacks/start") :
              /\ Happened("stopSettled")
              /\ Happened("delayElapsed")
              /\ \A j \in CallsTo("stacks/stop") :
                    j < i /\ inv.calls[j].resp.kind # "pending"

C6_Witness ==
    /\ inv.op = "redeployStack"
    /\ \E i \in CallsTo("stacks/start"), j \in CallsTo("stacks/stop") :
          inv.calls[j].resp.kind = "throw"
    /\ Happened("startSettled")

(***************************************************************************)
(* C7: with a stackId that is non-numeric, NaN, zero or negative, each of  *)
(* startStack, stopStack, updateStack and redeployStack returns false at   *)
(* once, with no resolver invocation and no call (no stack-list fetch).    *)
(***************************************************************************)
NonNumericOrNotPositive(x) ==
    \/ x.k \notin {"num", "inf"}
    \/ x.k = "num" /\ x.n <= 0

C7_InvalidStackIdRejected ==
    (inv.op \in StackOps /\ NonNumericOrNotPositive(inv.args.stackId)) =>
        /\ Settled
        /\ inv.result = "false"
        /\ inv.resolves = 0
        /\ inv.calls = <<>>

C7_Witness ==
    /\ inv.op = "redeployStack"
    /\ inv.args.stackId = Num(0)
    /\ inv.args.env \in EnvIds
    /\ Settled
    /\ inv.result = "false"

(***************************************************************************)
(* C8: the stackId validator of the four stack operations accepts a value  *)
(* exactly when it is a finite number, not NaN, greater than 0: any other  *)
(* value, positive infinity included, gives false and no call, and an      *)
(* accepted one (the other arguments being valid) reaches the first call.  *)
(***************************************************************************)
C8_AcceptsExactlyFinitePositive ==
    inv.op \in StackOps =>
        /\ ~FinitePositive(inv.args.stackId) =>
              /\ Settled => inv.result = "false"
              /\ inv.calls = <<>>
        /\ ( /\ FinitePositive(inv.args.stackId)
             /\ inv.args.env \in EnvIds
             /\ inv.op = "updateStack" => ~InvalidComposeContent(inv.args.content) ) =>
              inv.calls # <<>>

(***************************************************************************)
(* C9: startStack and stopStack return false, with no resolver invocation  *)
(* and no call, when environmentId is supplied (not undefined, not null)   *)
(* and is not a positive id: a non-number, NaN, zero, a negative number    *)
(* (the stackId being valid, so that this check is the one that decides).  *)
(***************************************************************************)
C9_InvalidEnvironmentIdRejected ==
    ( /\ inv.op \in {"startStack", "stopStack"}
      /\ FinitePositive(inv.args.stackId)
      /\ ~Nullish(inv.args.env)
      /\ NonNumericOrNotPositive(inv.args.env) ) =>
        /\ Settled => inv.result = "false"
        /\ inv.resolves = 0
        /\ inv.calls = <<>>

(***************************************************************************)
(* C10: with environmentId omitted and the resolver answering null,        *)
(* startStack, stopStack and cleanupExistingContainer return false and     *)
(* deleteStack returns undefined, with no call after the one resolution    *)
(* attempt (no POST, no DELETE, no container-list or stack lookup).        *)
(***************************************************************************)
FailureValue(op) == IF op = "deleteStack" THEN "undefined" ELSE "false"

C10_NoEnvironmentNoCalls ==
    ( /\ inv.op \in {"startStack", "stopStack", "cleanupExistingContainer", "deleteStack"}
      /\ Nullish(inv.args.env)
      /\ inv.answers # <<>>
      /\ inv.answers[Len(inv.answers)] = Null ) =>
        /\ Settled
        /\ inv.result = FailureValue(inv.op)
        /\ inv.resolves = 1
        /\ inv.calls = <<>>

C10_Witness ==
    /\ inv.op = "startStack"
    /\ inv.args.env = Undefined
    /\ inv.answers = <<Null>>
    /\ Settled
    /\ inv.result = "false"

(***************************************************************************)
(* C11: when the caller gives startStack, stopStack, updateStack or        *)
(* redeployStack an environmentId that is a valid id, ensureEnvId is never *)
(* invoked during the invocation (the stopStack and startStack calls made  *)
(* by redeployStack included) and every request carries exactly that id.   *)
(***************************************************************************)
C11_ExplicitEnvironmentSkipsResolver ==
    (inv.op \in StackOps /\ inv.args.env \in EnvIds) =>
        /\ inv.resolves = 0
        /\ inv.answers = <<>>
        /\ \A i \in Requests : inv.calls[i].env = inv.args.env

C11_Witness ==
    /\ inv.op = "redeployStack"
    /\ inv.args.env = Num(MaxEnv)
    /\ Settled
    /\ \E i \in CallsTo("stacks/stop"), j \in CallsTo("stacks/start") :
          /\ inv.calls[i].env = Num(MaxEnv)
          /\ inv.calls[j].env = Num(MaxEnv)

(***************************************************************************)
(* C12: updateStack called with environmentId undefined or null (stackId   *)
(* and composeContent being valid) invokes ensureEnvId once; when the      *)
(* answer is an id the one PUT it issues carries that id and the result is *)
(* true when the PUT succeeds; when the answer is null the result is false *)
(* and no call is issued.                                                  *)
(***************************************************************************)
NonBlankString(c) ==
    /\ c.k = "string"
    /\ \E i \in 1..Len(c.s) : c.s[i] \notin {" ", "\t", "\n"}

C12_UpdateResolvesOmittedEnvironment ==
    ( /\ inv.op = "updateStack"
      /\ FinitePositive(inv.args.stackId)
      /\ NonBlankString(inv.args.content)
      /\ Nullish(inv.args.env) ) =>
        /\ inv.resolves = 1
        /\ \A i \in Requests :
              /\ inv.answers # <<>>
              /\ inv.answers[1] # Null
              /\ inv.calls[i].env = inv.answers[1]
        /\ (Settled /\ inv.answers = <<Null>>) =>
              inv.result = "false" /\ inv.calls = <<>>
        /\ (Settled /\ inv.answers # <<>> /\ inv.answers[1] # Null) =>
              /\ Len(inv.calls) = 1
              /\ inv.result = "true" <=> inv.calls[1].resp.kind = "ok"

(***************************************************************************)
(* C13: updateStack and redeployStack, given an environmentId that is      *)
(* neither undefined nor null and is not a number or is NaN (the other     *)
(* arguments being valid), return false without invoking ensureEnvId and   *)
(* without issuing any call.                                               *)
(***************************************************************************)
PresentButInvalid(e) == e.k \in {"string", "bool", "nan"}

C13_InvalidEnvironmentRejectedNotResolved ==
    ( /\ inv.op \in {"updateStack", "redeployStack"}
      /\ FinitePositive(inv.args.stackId)
      /\ inv.op = "updateStack" => NonBlankString(inv.args.content)
      /\ PresentButInvalid(inv.args.env) ) =>
        /\ Settled => inv.result = "false"
        /\ inv.resolves = 0
        /\ inv.calls = <<>>

(***************************************************************************)
(* C14: when a request issued by startStack, stopStack or updateStack      *)
(* throws, the invocation settles to false; whatever the arguments and the *)
(* resolver's answer, these three never settle to a thrown exception, nor  *)
(* do the stopStack and startStack calls awaited by redeployStack.         *)
(***************************************************************************)
SomeRequestThrew == \E i \in Requests : inv.calls[i].resp.kind = "throw"

C14_TransportFailureCaught ==
    /\ inv.op \in {"startStack", "stopStack", "updateStack"} =>
          /\ SomeRequestThrew => (Settled /\ inv.result = "false")
          /\ Settled => inv.result \in {"true", "false"}
    /\ \A k \in 1..Len(inv.frames) : inv.frames[k].ret # "throw"

C14_Witness ==
    /\ inv.op = "startStack"
    /\ Nullish(inv.args.env)
    /\ inv.answers # <<>>
    /\ SomeRequestThrew
    /\ Settled
    /\ inv.result = "false"

(***************************************************************************)
(* C15: with a stackId that is a finite positive number and an environment *)
(* that is either a valid id given by the caller or, environmentId being   *)
(* omitted, an id the resolver answered, startStack / stopStack issue      *)
(* exactly one request, a POST to /api/stacks/{stackId}/start resp. /stop  *)
(* with endpointId = that environment, and the result is true exactly when *)
(* that POST did not throw.                                                *)
(***************************************************************************)
EnvironmentAvailable ==
    \/ inv.args.env \in EnvIds
    \/ Nullish(inv.args.env) /\ inv.answers # <<>> /\ inv.answers[1] # Null

GivenOrResolved == IF Nullish(inv.args.env) THEN inv.answers[1] ELSE inv.args.env

PathOf(op) == IF op = "startStack" THEN "stacks/start" ELSE "stacks/stop"

C15_ExactlyOnePost ==
    ( /\ inv.op \in {"startStack", "stopStack"}
      /\ FinitePositive(inv.args.stackId)
      /\ EnvironmentAvailable ) =>
        /\ Len(inv.calls) = 1
        /\ inv.calls[1].verb = "POST"
        /\ inv.calls[1].ep = PathOf(inv.op)
        /\ inv.calls[1].id = inv.args.stackId
        /\ inv.calls[1].env = GivenOrResolved
        /\ Settled => (inv.result = "true" <=> inv.calls[1].resp.kind = "ok")
        /\ Settled => inv.calls[1].resp.kind \in {"ok", "throw"}

C15_Witness ==
    /\ inv.op = "stopStack"
    /\ inv.args.stackId = Num(MaxId)
    /\ inv.args.env = Undefined
    /\ inv.answers = <<Num(1)>>
    /\ Settled
    /\ inv.result = "true"
    /\ Len(inv.calls) = 1

(***************************************************************************)
(* C16: every request of updateStack is a PUT whose body has Prune =       *)
(* false, StackFileContent = the composeContent argument as given, and     *)
(* PullImage = the pullImage argument, or true when that is omitted,       *)
(* whatever pullImage and environmentId are; a composeContent that is      *)
(* empty or only whitespace gives false and no call.                       *)
(***************************************************************************)
BlankString(c) ==
    /\ c.k = "string"
    /\ \A i \in 1..Len(c.s) : c.s[i] \in {" ", "\t", "\n"}

PullImageAsked == IF inv.args.pull = Undefined THEN Bool(TRUE) ELSE inv.args.pull

C16_PutBody ==
    inv.op = "updateStack" =>
        /\ \A i \in Requests :
              /\ inv.calls[i].verb = "PUT"
              /\ inv.calls[i].body.Prune = Bool(FALSE)
              /\ inv.calls[i].body.StackFileContent = inv.args.content
              /\ inv.calls[i].body.PullImage = PullImageAsked
        /\ BlankString(inv.args.content) =>
              /\ Settled
              /\ inv.result = "false"
              /\ inv.calls = <<>>

C16_Witness ==
    /\ inv.op = "updateStack"
    /\ inv.args.content = Str(<<" ", "v">>)
    /\ inv.args.pull = Undefined
    /\ Settled
    /\ inv.result = "true"
    /\ \E i \in Requests : inv.calls[i].body.PullImage = Bool(TRUE)

(***************************************************************************)
(* C17: a settled cleanupExistingContainer that fetched the container      *)
(* list has issued, after the fetch: for a matched container in state      *)
(* "running", a stop POST and then a DELETE, both for that container; for  *)
(* a matched container in another state, only the DELETE; with no match,   *)
(* nothing, the result being false.                                        *)
(***************************************************************************)
ListFetched ==
    /\ inv.calls # <<>>
    /\ inv.calls[1].ep = "getContainers"
    /\ inv.calls[1].resp.kind = "list"

\* position in the fetched list of the container the name selects, 0 if none
Matched == FindContainer(inv.calls[1].resp.list, inv.args.name)

MatchedContainer == inv.calls[1].resp.list[Matched]

IsStopOf(c, container) ==
    c.verb = "POST" /\ c.ep = "containers/stop" /\ c.id = container.Id

IsDeleteOf(c, container) ==
    c.verb = "DELETE" /\ c.ep = "containers" /\ c.id = container.Id

C17_StopThenDelete ==
    (inv.op = "cleanupExistingContainer" /\ Settled /\ ListFetched) =>
        IF Matched = 0
        THEN Len(inv.calls) = 1 /\ inv.result = "false"
        ELSE IF MatchedContainer.State = "running"
        THEN /\ Len(inv.calls) = 3
             /\ IsStopOf(inv.calls[2], MatchedContainer)
             /\ IsDeleteOf(inv.calls[3], MatchedContainer)
        ELSE /\ Len(inv.calls) = 2
             /\ IsDeleteOf(inv.calls[2], MatchedContainer)

(***************************************************************************)
(* C18: in cleanupExistingContainer, a stop POST that throws is followed   *)
(* by a DELETE for the same container.                                     *)
(***************************************************************************)
C18_DeleteAttemptedAfterFailedStop ==
    (inv.op = "cleanupExistingContainer" /\ Settled) =>
        \A i \in CallsTo("containers/stop") :
            inv.calls[i].resp.kind = "throw" =>
                \E j \in CallsTo("containers") :
                    /\ i < j
                    /\ inv.calls[j].verb = "DELETE"
                    /\ inv.calls[j].id = inv.calls[i].id

(***************************************************************************)
(* C19: a settled cleanupExistingContainer gave true or false, never a     *)
(* thrown exception; it gave true exactly when a DELETE for the container  *)
(* the name matched in the fetched list settled without throwing, so it    *)
(* gave false when the resolver answered null, when the list fetch gave    *)
(* undefined or threw, when nothing matched, and when the stop POST or the *)
(* DELETE threw.                                                           *)
(***************************************************************************)
MatchedAndDeleted ==
    /\ ListFetched
    /\ Matched # 0
    /\ \E j \in CallsTo("containers") :
          /\ IsDeleteOf(inv.calls[j], MatchedContainer)
          /\ inv.calls[j].resp.kind = "ok"

SomeCallThrew == \E i \in 1..Len(inv.calls) : inv.calls[i].resp.kind = "throw"

C19_TrueOnlyWhenDeleted ==
    (inv.op = "cleanupExistingContainer" /\ Settled) =>
        /\ inv.result \in {"true", "false"}
        /\ inv.result = "true" <=> MatchedAndDeleted
        /\ SomeCallThrew => inv.result = "false"
        /\ ~ListFetched => inv.result = "false"
        /\ (inv.answers # <<>> /\ inv.answers[Len(inv.answers)] = Null) =>
              inv.result = "false"

C19_Witness ==
    /\ inv.op = "cleanupExistingContainer"
    /\ Settled
    /\ MatchedAndDeleted
    /\ \E i \in CallsTo("containers/stop") : inv.calls[i].resp.kind = "ok"
    /\ inv.result = "true"

(***************************************************************************)
(* C20: deleteStack with a numeric id looks the stack up before it         *)
(* deletes: when the lookup finds no stack with that id the result is      *)
(* undefined and no DELETE is issued; when it finds one, exactly one       *)
(* DELETE to /api/stacks/{id} with endpointId = the environment is issued, *)
(* after the lookup, and the result is that call's payload, or undefined   *)
(* when the call threw.                                                    *)
(***************************************************************************)
StackDeletes == {i \in 1..Len(inv.calls) : inv.calls[i].verb = "DELETE"}

C20_ExistenceCheckedBeforeDelete ==
    (inv.op = "deleteStack" /\ TypeofNumber(inv.args.stackId)) =>
        /\ \A j \in StackDeletes :
              \E i \in CallsTo("getStackById") : i < j /\ ListHolds(inv.calls[i].resp)
        /\ \A i \in CallsTo("getStackById") :
              (Settled /\ ~ListHolds(inv.calls[i].resp)) =>
                  inv.result = "undefined" /\ StackDeletes = {}
        /\ \A i \in CallsTo("getStackById") :
              (Settled /\ ListHolds(inv.calls[i].resp)) =>
                  /\ Cardinality(StackDeletes) = 1
                  /\ \A j \in StackDeletes :
                        /\ inv.calls[j].ep = "stacks"
                        /\ inv.calls[j].id = inv.args.stackId
                        /\ inv.calls[j].env = GivenOrResolved
                        /\ inv.calls[j].resp.kind = "ok" => inv.result = "data"
                        /\ inv.calls[j].resp.kind = "throw" => inv.result = "undefined"
                        /\ inv.calls[j].resp.kind \in {"ok", "throw"}

C20_Witness ==
    /\ inv.op = "deleteStack"
    /\ inv.args.stackId = Num(MaxId)
    /\ inv.args.env = Undefined
    /\ Settled
    /\ \E i \in CallsTo("getStackById") : ListHolds(inv.calls[i].resp)
    /\ \E j \in StackDeletes : inv.calls[j].env = Num(1)
    /\ inv.result = "data"

(***************************************************************************)
(* C21: deleteStack given a name looks the name up before it deletes: it   *)
(* issues at most one DELETE, addressed to the numeric Id of a stack that  *)
(* the lookup found under that name, never to the name; when the lookup    *)
(* finds no stack of that name the result is undefined and no DELETE is    *)
(* issued.                                                                 *)
(***************************************************************************)
\* the looked-up list holds a stack named as the argument, with that Id
NameHolds(resp, id) ==
    /\ resp.kind = "list"
    /\ \E k \in 1..Len(resp.list) :
          resp.list[k].Name = inv.args.stackId /\ resp.list[k].Id = id

NameKnown(resp) == \E n \in 1..MaxId : NameHolds(resp, Num(n))

C21_NameResolvedToId ==
    (inv.op = "deleteStack" /\ TypeofString(inv.args.stackId)) =>
        /\ Cardinality(StackDeletes) <= 1
        /\ \A j \in StackDeletes :
              /\ inv.calls[j].id.k = "num"
              /\ \E i \in CallsTo("getStackByName") :
                    i < j /\ NameHolds(inv.calls[i].resp, inv.calls[j].id)
        /\ \A i \in CallsTo("getStackByName") :
              /\ (Settled /\ ~NameKnown(inv.calls[i].resp)) =>
                    inv.result = "undefined" /\ StackDeletes = {}
              /\ (Settled /\ NameKnown(inv.calls[i].resp)) =>
                    Cardinality(StackDeletes) = 1

C21_Witness ==
    /\ inv.op = "deleteStack"
    /\ inv.args.stackId = Str(StackName(1))
    /\ Settled
    /\ \E j \in StackDeletes : inv.calls[j].id = Num(1) /\ inv.calls[j].resp.kind = "ok"
    /\ inv.result = "data"

(***************************************************************************)
(* C22: deleteStack given a reference that is neither a finite positive    *)
(* number nor a string with a non-blank character returns undefined, and   *)
(* cleanupExistingContainer given a name that is not a non-empty string,   *)
(* or an environmentId that is present but invalid, returns false; in each *)
(* case ensureEnvId is not invoked and no lookup or request is issued.     *)
(***************************************************************************)
MalformedStackRef(x) == ~FinitePositive(x) /\ ~NonBlankString(x)

MalformedName(x) == x.k # "string" \/ x.s = <<>>

C22_MalformedInputRejected ==
    ( \/ inv.op = "deleteStack" /\ MalformedStackRef(inv.args.stackId)
      \/ /\ inv.op = "cleanupExistingContainer"
         /\ MalformedName(inv.args.name) \/ PresentButInvalid(inv.args.env) ) =>
        /\ Settled => inv.result = FailureValue(inv.op)
        /\ inv.resolves = 0
        /\ inv.calls = <<>>

(***************************************************************************)
(* C26: whatever the calls settle to, an invocation of startStack,         *)
(* stopStack or updateStack issues at most one request, and an invocation  *)
(* of redeployStack at most one stack-list fetch, one stop POST and one    *)
(* start POST.                                                             *)
(***************************************************************************)
C26_NoRetry ==
    /\ inv.op \in {"startStack", "stopStack", "updateStack"} =>
          Len(inv.calls) <= 1
    /\ inv.op = "redeployStack" =>
          /\ Cardinality(CallsTo("getStacks")) <= 1
          /\ Cardinality(CallsTo("stacks/stop")) <= 1
          /\ Cardinality(CallsTo("stacks/start")) <= 1
          /\ Len(inv.calls) <= 3

C26_Witness ==
    /\ inv.op = "redeployStack"
    /\ Settled
    /\ \E i \in CallsTo("stacks/stop") : inv.calls[i].resp.kind = "throw"
    /\ \E j \in CallsTo("stacks/start") : inv.calls[j].resp.kind = "throw"

(***************************************************************************)
(* C27: every stop POST and DELETE of cleanupExistingContainer is for the  *)
(* first container, in the order of the fetched list, one of whose aliases *)
(* contains the name or equals "/" + name; no later match and no other     *)
(* container is stopped or deleted.                                        *)
(***************************************************************************)
AliasMatches(alias, name) == Includes(alias, name) \/ alias = <<"/">> \o name

HasAlias(c, name) == \E a \in 1..Len(c.Names) : AliasMatches(c.Names[a], name)

FirstWithAlias(list, k, name) ==
    /\ HasAlias(list[k], name)
    /\ \A m \in 1..(k - 1) : ~HasAlias(list[m], name)

C27_FirstMatchOnly ==
    ( /\ inv.op = "cleanupExistingContainer"
      /\ TypeofString(inv.args.name)
      /\ ListFetched ) =>
        \A i \in Requests :
            \E k \in 1..Len(inv.calls[1].resp.list) :
                /\ FirstWithAlias(inv.calls[1].resp.list, k, inv.args.name.s)
                /\ inv.calls[i].id = inv.calls[1].resp.list[k].Id

C27_Witness ==
    /\ inv.op = "cleanupExistingContainer"
    /\ inv.args.name = Str(<<"w", "e", "b">>)
    /\ ListFetched
    /\ Len(inv.calls[1].resp.list) = 2
    /\ \A k \in 1..2 : HasAlias(inv.calls[1].resp.list[k], inv.args.name.s)
    /\ inv.calls[1].resp.list[1].Names # inv.calls[1].resp.list[2].Names
    /\ Settled
    /\ Len(inv.calls) = 3
    /\ inv.result = "true"

(***************************************************************************)
(* C29: within one redeployStack invocation the stop POST and the start    *)
(* POST carry the same stack id and the same environment id, also when     *)
(* environmentId was omitted and the resolver's answer changes while the   *)
(* invocation is in progress.                                              *)
(***************************************************************************)
C29_SameTargetForStopAndStart ==
    inv.op = "redeployStack" =>
        \A i \in CallsTo("stacks/stop"), j \in CallsTo("stacks/start") :
            /\ inv.calls[i].id = inv.calls[j].id
            /\ inv.calls[i].env = inv.calls[j].env

(***************************************************************************)
(* C25: ensureEnvId returns the environment id that is set, unchanged and  *)
(* with no call, when one is set; otherwise it fetches the environment     *)
(* collection once and returns the Id of its first entry, or null when the *)
(* collection is empty or the fetch gave nothing or threw; it never        *)
(* throws.                                                                 *)
(***************************************************************************)
FirstIdOrNull(resp) ==
    IF resp.kind = "list" /\ resp.list # <<>>
    THEN IdResult(Head(resp.list).Id)
    ELSE "null"

C25_ResolverAnswer ==
    inv.op = "ensureEnvId" =>
        /\ inv.args.env # Null =>
              /\ Settled
              /\ inv.result = IdResult(inv.args.env)
              /\ inv.calls = <<>>
        /\ (inv.args.env = Null /\ Settled) =>
              /\ Len(inv.calls) = 1
              /\ inv.calls[1].ep = "getEnvironments"
              /\ inv.result = FirstIdOrNull(inv.calls[1].resp)
        /\ Settled => inv.result # "throw"
        /\ \A k \in 1..Len(inv.frames) : inv.frames[k].ret # "throw"

C25_Witness ==
    /\ inv.op = "ensureEnvId"
    /\ inv.args.env = Null
    /\ Settled
    /\ inv.calls[1].resp.kind = "list"
    /\ Len(inv.calls[1].resp.list) = 2
    /\ inv.calls[1].resp.list[1] # inv.calls[1].resp.list[2]
    /\ inv.result = IdResult(inv.calls[1].resp.list[1].Id)

(***************************************************************************)
(* C23: each of the seven container methods, given a containerId that is a *)
(* non-empty string and an environment that is a valid id given by the     *)
(* caller or, environmentId being omitted, an id the resolver answered,    *)
(* issues exactly one request: a POST to                                   *)
(* /api/endpoints/{env}/docker/containers/{id}/{action} for start, stop,   *)
(* kill, pause, unpause and restart, a DELETE to                           *)
(* /api/endpoints/{env}/docker/containers/{id} for remove; the result is   *)
(* true exactly when that request did not throw.                           *)
(***************************************************************************)
ContainerOps ==
    {"startContainer", "stopContainer", "removeContainer", "killContainer",
     "pauseContainer", "unpauseContainer", "restartContainer"}

ActionVerb(op) == IF op = "removeContainer" THEN "DELETE" ELSE "POST"

ActionPath(op) ==
    CASE op = "startContainer" -> "containers/start"
      [] op = "stopContainer" -> "containers/stop"
      [] op = "killContainer" -> "containers/kill"
      [] op = "pauseContainer" -> "containers/pause"
      [] op = "unpauseContainer" -> "containers/unpause"
      [] op = "restartContainer" -> "containers/restart"
      [] op = "removeContainer" -> "containers"

C23_OneCallPerAction ==
    ( /\ inv.op \in ContainerOps
      /\ NonBlankString(inv.args.containerId)
      /\ EnvironmentAvailable ) =>
        /\ Len(inv.calls) = 1
        /\ inv.calls[1].verb = ActionVerb(inv.op)
        /\ inv.calls[1].ep = ActionPath(inv.op)
        /\ inv.calls[1].id = inv.args.containerId
        /\ inv.calls[1].env = GivenOrResolved
        /\ Settled => (inv.result = "true" <=> inv.calls[1].resp.kind = "ok")
        /\ Settled => inv.calls[1].resp.kind \in {"ok", "throw"}

C23_Witness ==
    /\ inv.op = "killContainer"
    /\ NonBlankString(inv.args.containerId)
    /\ inv.args.env = Undefined
    /\ inv.answers = <<Num(MaxEnv)>>
    /\ Settled
    /\ inv.calls[1].resp.kind = "throw"
    /\ inv.result = "false"

(***************************************************************************)
(* C24: handleContainer returns false, with no resolver invocation and no  *)
(* request, when the request is not an object, the action is not one of    *)
(* the seven, containerId is not a non-empty string, environmentId is      *)
(* present but not a positive number, or an option fails its check (force  *)
(* or removeVolumes not boolean, signal not a string, timeout not a        *)
(* non-negative number).                                                   *)
(***************************************************************************)
Given(x) == x # Undefined

SevenActions ==
    {<<"start">>, <<"stop">>, <<"kill">>, <<"pause">>, <<"unpause">>, <<"restart">>,
     <<"remove">>}

BadRequest ==
    \/ inv.args.request.k # "object"
    \/ inv.args.action.k # "string"
    \/ inv.args.action.s \notin SevenActions
    \/ ~NonBlankString(inv.args.containerId)
    \/ ~Nullish(inv.args.env) /\ ~FinitePositive(inv.args.env)
    \/ Given(inv.args.opts.force) /\ inv.args.opts.force \notin {Bool(TRUE), Bool(FALSE)}
    \/ /\ Given(inv.args.opts.removeVolumes)
       /\ inv.args.opts.removeVolumes \notin {Bool(TRUE), Bool(FALSE)}
    \/ Given(inv.args.opts.signal) /\ inv.args.opts.signal.k # "string"
    \/ /\ Given(inv.args.opts.timeout)
       /\ ~(inv.args.opts.timeout.k = "num" /\ inv.args.opts.timeout.n >= 0)

C24_HandleContainerRejects ==
    (inv.op = "handleContainer" /\ BadRequest) =>
        /\ Settled
        /\ inv.result = "false"
        /\ inv.resolves = 0
        /\ inv.calls = <<>>

C24_Witness ==
    /\ inv.op = "handleContainer"
    /\ inv.args.action = Str(<<"restart">>)
    /\ NonBlankString(inv.args.containerId)
    /\ inv.args.env \in EnvIds
    /\ inv.args.opts.timeout = Num(-5)
    /\ Settled
    /\ inv.result = "false"

(***************************************************************************)
(* C28: when every awaited call and resolution settles and the timer       *)
(* fires, every redeployStack invocation eventually returns, and what it   *)
(* returns is true or false, never a thrown exception, whatever the inputs *)
(* and the outcomes of the sub-steps.                                      *)
(***************************************************************************)
RedeployReturned ==
    inv.op = "redeployStack" /\ Settled /\ inv.result \in {"true", "false"}

C28_RedeployTerminates ==
    /\ (inv.op = "redeployStack") ~> RedeployReturned
    /\ []((inv.op = "redeployStack" /\ Settled) => inv.result \in {"true", "false"})

C28_Witness ==
    /\ RedeployReturned
    /\ Nullish(inv.args.env)
    /\ Len(inv.answers) = 2
    /\ Happened("startSettled")

(***************************************************************************)
(* C30: with several redeployStack invocations for the same stack and the  *)
(* same caller-given environment in flight on one client, in any           *)
(* interleaving, the stop POST of each invocation is sent before its own   *)
(* start POST, a start POST is sent only by an invocation that sent its    *)
(* stop POST, and once every invocation made has returned the last stop or *)
(* start POST sent for the stack is a start.                               *)
(***************************************************************************)
WireOf(k, ep) == {i \in 1..Len(inv.wire) : inv.wire[i].task = k /\ inv.wire[i].ep = ep}

TaskReturned(k) == inv.tasks[k].op = "redeployStack" /\ inv.tasks[k].frames = <<>>

AllReturned ==
    /\ \E k \in 1..MaxTasks : TaskReturned(k)
    /\ \A k \in 1..MaxTasks : inv.tasks[k] = Idle \/ TaskReturned(k)

C30_LastLifecycleCallIsStart ==
    /\ \A k \in 1..MaxTasks :
          /\ \A i \in WireOf(k, "stacks/stop"), j \in WireOf(k, "stacks/start") : i < j
          /\ \A j \in WireOf(k, "stacks/start") :
                \E i \in WireOf(k, "stacks/stop") : i < j
    /\ \A i \in 1..Len(inv.wire) :
          inv.wire[i].id = inv.stackId /\ inv.wire[i].env = inv.env
    /\ (AllReturned /\ inv.wire # <<>>) =>
          inv.wire[Len(inv.wire)].ep = "stacks/start"

C30_Witness ==
    /\ \A k \in 1..MaxTasks : TaskReturned(k)
    /\ Len(inv.wire) >= 4
    /\ inv.wire[1].ep = "stacks/stop"
    /\ inv.wire[2].ep = "stacks/stop"
    /\ inv.wire[1].task # inv.wire[2].task
    /\ inv.wire[Len(inv.wire)].task = inv.wire[1].task

====
